---- MODULE Spec2Model ----
(***************************************************************************)
(* Model of mixin-attrs/mixin_attrs.py: AttributeHandler (an identity-     *)
(* keyed side table with a default value and a weakref.finalize cleanup    *)
(* hook), the two attribute factories, and the CPython object lifetime     *)
(* rules the handler relies on (reference counts, id() as the address of   *)
(* a live object, the finalizer registry and its run at interpreter exit). *)
(***************************************************************************)
EXTENDS Integers, FiniteSets, Sequences, TLC

\* ---------------------------------------------------------------- bounds
\* Number of addresses an object can live at (id() values).
NumIds == 2
\* Number of attribute declarations (handlers) the program makes.
NumHandlers == 2
\* Attribute values are 0..MaxVal.
MaxVal == 1
\* Owners carry a value used by their __eq__/__hash__, in 1..MaxKey.
MaxKey == 1
\* Finalizers pending for one owner when the program registers hooks itself.
MaxHooks == 1

\* Python's None, kept apart from every attribute value.
None == -1

Ids == 1..NumIds
Handlers == 1..NumHandlers
Values == 0..MaxVal
PyValues == Values \cup {None}
EqKeys == 1..MaxKey

\* An address with no live object.
NoObj == [alive |-> FALSE, rooted |-> FALSE, weakrefable |-> FALSE, eqkey |-> 0]

VARIABLES
    default_value,  \* sequence: default_value[h] is handler h's __default_value
    variable,       \* sequence: variable[h] is handler h's __variable dict (id -> value)
    registry,       \* weakref.finalize._registry: pending finalizers per (handler, id)
    heap,           \* the object (if any) living at each address
    written,        \* history: written[h][id] = the value last set through h on the live object at id
    given_default,  \* history: given_default[h] = the default handler h was constructed with
    exited,         \* the interpreter has begun to shut down
    last            \* the last call made and what it returned or raised

vars == <<default_value, variable, registry, heap, written, given_default, exited, last>>

\* op: the call; h, obj, val: its handler, object and value argument; ret, has:
\* the value or truth value returned; raised: the exception raised ("" for none);
\* had, old: whether the handler held an entry for obj before the call, and
\* what reading obj gave then.
NoCall == [op |-> "none", h |-> 0, obj |-> 0, val |-> None, ret |-> None,
           has |-> FALSE, raised |-> "", had |-> FALSE, old |-> None]

Declared == DOMAIN default_value

\* ------------------------------------------------------------ dict helpers
DictGet(d, k, dflt) == IF k \in DOMAIN d THEN d[k] ELSE dflt

DictSet(d, k, v) == [j \in DOMAIN d \cup {k} |-> IF j = k THEN v ELSE d[j]]

DictDel(d, k) == [j \in DOMAIN d \ {k} |-> d[j]]

EmptyDict == [j \in {} |-> None]

\* ------------------------------------------------------- AttributeHandler
\* What a call on handler state gives back: the value returned, the exception
\* raised ("" for none) and the handler dicts and finalizer registry it leaves.
Result(ret, raised, var, reg) ==
    [ret |-> ret, raised |-> raised, variable |-> var, registry |-> reg]

\* Mutant: the key is the owner's hash (its value), not its identity.
_get_id_hash(obj) == heap[obj].eqkey

\* id(obj): the address of the live object.
_get_id(obj) == obj

\* return self._get_id(obj) in self.__variable
__contains__(h, obj) ==
    Result(_get_id(obj) \in DOMAIN variable[h], "", variable, registry)

\* Mutant: the lookup is a setdefault: reading an owner with no entry stores the
\* default for it (and registers its hook, as a first write does).
__getitem__setdefault(h, obj) ==
    IF _get_id(obj) \in DOMAIN variable[h]
    THEN Result(variable[h][_get_id(obj)], "", variable, registry)
    ELSE Result(default_value[h], "",
                [variable EXCEPT ![h] = DictSet(@, _get_id(obj), default_value[h])],
                [registry EXCEPT ![<<h, obj>>] = @ + 1])

\* Mutant: the lookup forgets the default: self.__variable.get(self._get_id(obj)).
__getitem__nodefault(h, obj) ==
    Result(DictGet(variable[h], _get_id(obj), None), "", variable, registry)

\* return self.__variable.get(self._get_id(obj), self.__default_value)
__getitem__(h, obj) ==
    Result(DictGet(variable[h], _get_id(obj), default_value[h]), "", variable, registry)

\* Mutant: the finalizer forgets to delete the entry.
cleanup_noop(h, obj) == Result(None, "", variable, registry)

\* The closure registered as the finalizer: del self.__variable[self._get_id(obj)].
\* del on a missing key raises KeyError and leaves the dict as it was.
cleanup(h, obj) ==
    IF _get_id(obj) \in DOMAIN variable[h]
    THEN Result(None, "", [variable EXCEPT ![h] = DictDel(@, _get_id(obj))], registry)
    ELSE Result(None, "KeyError", variable, registry)

\* weakref.finalize(obj, cleanup): raises TypeError when obj cannot be weakly
\* referenced, else adds one finalizer to the registry.
_add_destructor_hooks(h, obj) ==
    IF heap[obj].weakrefable
    THEN Result(None, "", variable, [registry EXCEPT ![<<h, obj>>] = @ + 1])
    ELSE Result(None, "TypeError", variable, registry)

\* Mutant: the hook is registered on every write, not only the first.
__setitem__always(h, obj, value) ==
    LET hook == _add_destructor_hooks(h, obj)
    IN  IF hook.raised # ""
        THEN hook
        ELSE Result(None, "", [hook.variable EXCEPT ![h] = DictSet(@, _get_id(obj), value)],
                    hook.registry)

\* Mutant: setting None deletes the owner's entry instead of storing None.
__setitem__delnone(h, obj, value) ==
    IF value = None /\ __contains__(h, obj).ret
    THEN Result(None, "", [variable EXCEPT ![h] = DictDel(@, _get_id(obj))], registry)
    ELSE LET hook == IF ~ __contains__(h, obj).ret
                     THEN _add_destructor_hooks(h, obj)
                     ELSE Result(None, "", variable, registry)
         IN  IF hook.raised # ""
             THEN hook
             ELSE Result(None, "", [hook.variable EXCEPT ![h] = DictSet(@, _get_id(obj), value)],
                         hook.registry)

\* Mutant: the value is stored before the hook is registered, so a failed
\* registration leaves the entry behind.
__setitem__storefirst(h, obj, value) ==
    LET stored == [variable EXCEPT ![h] = DictSet(@, _get_id(obj), value)]
        hook == IF ~ __contains__(h, obj).ret
                THEN _add_destructor_hooks(h, obj)
                ELSE Result(None, "", variable, registry)
    IN  Result(None, hook.raised, stored, hook.registry)

\* Mutant: __variable is one dict shared by every handler (a class attribute).
__setitem__shared(h, obj, value) ==
    LET hook == IF _get_id(obj) \notin DOMAIN variable[h]
                THEN IF heap[obj].weakrefable
                     THEN Result(None, "", variable, [registry EXCEPT ![<<h, obj>>] = @ + 1])
                     ELSE Result(None, "TypeError", variable, registry)
                ELSE Result(None, "", variable, registry)
    IN  IF hook.raised # ""
        THEN hook
        ELSE Result(None, "",
                    [g \in DOMAIN variable |-> DictSet(variable[g], _get_id(obj), value)],
                    hook.registry)

\* Mutant: the store is a setdefault: an existing entry keeps its value.
__setitem__setdefault(h, obj, value) ==
    IF __contains__(h, obj).ret
    THEN Result(None, "", variable, registry)
    ELSE LET hook == _add_destructor_hooks(h, obj)
         IN  IF hook.raised # ""
             THEN hook
             ELSE Result(None, "", [hook.variable EXCEPT ![h] = DictSet(@, _get_id(obj), value)],
                         hook.registry)

\* if obj not in self: self._add_destructor_hooks(obj)
\* self.__variable[self._get_id(obj)] = value
__setitem__(h, obj, value) ==
    LET hook == IF ~ __contains__(h, obj).ret
                THEN _add_destructor_hooks(h, obj)
                ELSE Result(None, "", variable, registry)
    IN  IF hook.raised # ""
        THEN hook
        ELSE Result(None, "", [hook.variable EXCEPT ![h] = DictSet(@, _get_id(obj), value)],
                    hook.registry)

\* return self[obj]
__get__(h, obj) == __getitem__(h, obj)

\* Mutant: the descriptor write does not reach the handler's dict.
__set__dropped(h, obj, value) == Result(None, "", variable, registry)

\* self[obj] = value
__set__(h, obj, value) == __setitem__(h, obj, value)

\* ---------------------------------------------------------------- factories
\* MixinProperty(default_value) / OptionalMixinProperty(default_value): the
\* factory object keeps only the default.
MixinProperty(d) == [default_value |-> d]

OptionalMixinProperty(d) == [default_value |-> d]

\* Mutant: the assertion is missing.
mixin_property_unchecked(d) ==
    [raised |-> "", made |-> TRUE, factory |-> MixinProperty(d)]

\* assert default_value is not None; return MixinProperty(default_value)
mixin_property(d) ==
    IF d = None
    THEN [raised |-> "AssertionError", made |-> FALSE, factory |-> MixinProperty(None)]
    ELSE [raised |-> "", made |-> TRUE, factory |-> MixinProperty(d)]

\* return OptionalMixinProperty(default_value)
optional_mixin_property(d) ==
    [raised |-> "", made |-> TRUE, factory |-> OptionalMixinProperty(d)]

\* AttributeHandler.__init__: a new handler has its own default and an empty dict.
AttributeHandler(d) == [default_value |-> d, variable |-> EmptyDict]

\* MixinProperty.__call__ / OptionalMixinProperty.__call__: the decorated
\* placeholder is ignored; a new handler seeded with the factory's default.
MixinProperty__call__(factory) == AttributeHandler(factory.default_value)

\* Mutant: a missing default is replaced by a value (default_value or 0).
OptionalMixinProperty__call__or(factory) ==
    AttributeHandler(IF factory.default_value = None THEN 0 ELSE factory.default_value)

OptionalMixinProperty__call__(factory) == AttributeHandler(factory.default_value)

\* ------------------------------------------------------------ object lifetime
\* The finalizer registry holds each pending cleanup closure, and the closure
\* holds obj: an object with a pending finalizer is strongly referenced.
Pinned(obj) == \E h \in Handlers : registry[<<h, obj>>] > 0

\* An object the program can pass to a handler.
Usable(obj) == heap[obj].alive /\ heap[obj].rooted

\* ------------------------------------------------------------------ actions
Init ==
    /\ default_value = <<>>
    /\ variable = <<>>
    /\ registry = [p \in Handlers \X Ids |-> 0]
    /\ heap = [i \in Ids |-> NoObj]
    /\ written = [h \in Handlers |-> EmptyDict]
    /\ given_default = <<>>
    /\ exited = FALSE
    /\ last = NoCall

\* The handler a class body binds to the attribute name joins the program's handlers.
Bind(handler, d) ==
    /\ default_value' = Append(default_value, handler.default_value)
    /\ variable' = Append(variable, handler.variable)
    /\ given_default' = Append(given_default, d)

\* @mixin_property(d) applied to a placeholder in a class body.
DeclareRequired(d) ==
    LET f == mixin_property(d) IN
    /\ ~ exited
    /\ f.made => Len(default_value) < NumHandlers
    /\ IF f.made
       THEN Bind(MixinProperty__call__(f.factory), d)
       ELSE UNCHANGED <<default_value, variable, given_default>>
    /\ last' = [NoCall EXCEPT !.op = "mixin_property", !.val = d, !.raised = f.raised,
                              !.h = IF f.made THEN Len(default_value) + 1 ELSE 0]
    /\ UNCHANGED <<registry, heap, written, exited>>

\* @optional_mixin_property(d) applied to a placeholder in a class body.
DeclareOptional(d) ==
    LET f == optional_mixin_property(d) IN
    /\ ~ exited
    /\ Len(default_value) < NumHandlers
    /\ Bind(OptionalMixinProperty__call__(f.factory), d)
    /\ last' = [NoCall EXCEPT !.op = "optional_mixin_property", !.val = d,
                              !.raised = f.raised, !.h = Len(default_value) + 1]
    /\ UNCHANGED <<registry, heap, written, exited>>

\* b = Base(): a new object at a free address, referenced by the program.
New(i, k, w) ==
    /\ ~ exited
    /\ ~ heap[i].alive
    /\ heap' = [heap EXCEPT ![i] = [alive |-> TRUE, rooted |-> TRUE,
                                    weakrefable |-> w, eqkey |-> k]]
    /\ last' = [NoCall EXCEPT !.op = "new", !.obj = i]
    /\ UNCHANGED <<default_value, variable, registry, written, given_default, exited>>

\* del b: the program drops its last reference to the object.
DropRef(i) ==
    /\ ~ exited
    /\ Usable(i)
    /\ heap' = [heap EXCEPT ![i].rooted = FALSE]
    /\ last' = [NoCall EXCEPT !.op = "del", !.obj = i]
    /\ UNCHANGED <<default_value, variable, registry, written, given_default, exited>>

\* The runtime frees an object nothing references any more; its address
\* becomes free for a later object.
Destroy(i) ==
    /\ heap[i].alive
    /\ ~ heap[i].rooted
    /\ ~ Pinned(i)
    /\ heap' = [heap EXCEPT ![i] = NoObj]
    /\ written' = [h \in Handlers |-> DictDel(written[h], i)]
    /\ last' = [NoCall EXCEPT !.op = "destroy", !.obj = i]
    /\ UNCHANGED <<default_value, variable, registry, given_default, exited>>

\* A program can call a handler method only on an object it holds.
CanCall(h, i) == ~ exited /\ h \in Declared /\ Usable(i)

\* The state after handler method op returned (or raised) r.
Returned(op, h, i, v, r) ==
    /\ variable' = r.variable
    /\ registry' = r.registry
    /\ last' = [NoCall EXCEPT !.op = op, !.h = h, !.obj = i, !.val = v,
                              !.ret = IF op \in {"__getitem__", "__get__"} THEN r.ret ELSE None,
                              !.has = IF op = "__contains__" THEN r.ret ELSE FALSE,
                              !.raised = r.raised,
                              !.had = IF op \in {"__setitem__", "__set__"}
                                      THEN __contains__(h, i).ret ELSE FALSE,
                              !.old = IF op \in {"__setitem__", "__set__"}
                                      THEN __getitem__(h, i).ret ELSE None]
    /\ written' = IF op \in {"__setitem__", "__set__"} /\ r.raised = ""
                  THEN [written EXCEPT ![h] = DictSet(@, i, v)]
                  ELSE written
    /\ UNCHANGED <<default_value, heap, given_default, exited>>

\* obj in handler
Contains(h, i) ==
    /\ CanCall(h, i)
    /\ Returned("__contains__", h, i, None, __contains__(h, i))

\* handler[obj]
GetItem(h, i) ==
    /\ CanCall(h, i)
    /\ Returned("__getitem__", h, i, None, __getitem__(h, i))

\* handler[obj] = value
SetItem(h, i, v) ==
    /\ CanCall(h, i)
    /\ Returned("__setitem__", h, i, v, __setitem__(h, i, v))

\* obj.attr (the descriptor read)
FieldRead(h, i) ==
    /\ CanCall(h, i)
    /\ Returned("__get__", h, i, None, __get__(h, i))

\* obj.attr = value (the descriptor write)
FieldWrite(h, i, v) ==
    /\ CanCall(h, i)
    /\ Returned("__set__", h, i, v, __set__(h, i, v))

\* The program ends: the interpreter starts its shutdown, no program code
\* runs any more and the program's own references go away.
Exit ==
    /\ ~ exited
    /\ exited' = TRUE
    /\ heap' = [i \in Ids |-> [heap[i] EXCEPT !.rooted = FALSE]]
    /\ last' = [NoCall EXCEPT !.op = "exit"]
    /\ UNCHANGED <<default_value, variable, registry, written, given_default>>

\* weakref.finalize's exit function calls a pending finalizer: it leaves the
\* registry and cleanup runs; an exception cleanup raises is reported on
\* stderr and goes no further.
Finalize(h, i) ==
    LET r == cleanup(h, i) IN
    /\ exited
    /\ registry[<<h, i>>] > 0
    /\ registry' = [r.registry EXCEPT ![<<h, i>>] = @ - 1]
    /\ variable' = r.variable
    /\ last' = [NoCall EXCEPT !.op = "cleanup", !.h = h, !.obj = i,
                              !.had = __contains__(h, i).ret, !.raised = r.raised]
    /\ UNCHANGED <<default_value, heap, written, given_default, exited>>

Next ==
    \/ \E d \in PyValues : DeclareRequired(d)
    \/ \E d \in PyValues : DeclareOptional(d)
    \/ \E i \in Ids, k \in EqKeys, w \in BOOLEAN : New(i, k, w)
    \/ \E i \in Ids : DropRef(i)
    \/ \E i \in Ids : Destroy(i)
    \/ \E h \in Handlers, i \in Ids : Contains(h, i)
    \/ \E h \in Handlers, i \in Ids : GetItem(h, i)
    \/ \E h \in Handlers, i \in Ids, v \in PyValues : SetItem(h, i, v)
    \/ \E h \in Handlers, i \in Ids : FieldRead(h, i)
    \/ \E h \in Handlers, i \in Ids, v \in PyValues : FieldWrite(h, i, v)
    \/ Exit
    \/ \E h \in Handlers, i \in Ids : Finalize(h, i)

Spec == Init /\ [][Next]_vars

\* The program may also call the hook registration (_add_destructor_hooks)
\* itself, outside __setitem__, on an owner with fewer than MaxHooks
\* finalizers pending.
AddDestructorHooks(h, i) ==
    /\ CanCall(h, i)
    /\ registry[<<h, i>>] < MaxHooks
    /\ Returned("_add_destructor_hooks", h, i, None, _add_destructor_hooks(h, i))

\* A program that declares one optional attribute, sets it, registers hooks
\* itself, drops its objects and ends.
NextHook ==
    \/ \E d \in PyValues : Declared = {} /\ DeclareOptional(d)
    \/ \E i \in Ids, k \in EqKeys, w \in BOOLEAN : New(i, k, w)
    \/ \E i \in Ids : DropRef(i)
    \/ \E i \in Ids : Destroy(i)
    \/ \E h \in Handlers, i \in Ids, v \in PyValues : SetItem(h, i, v)
    \/ \E h \in Handlers, i \in Ids : AddDestructorHooks(h, i)
    \/ Exit
    \/ \E h \in Handlers, i \in Ids : Finalize(h, i)

HookSpec == Init /\ [][NextHook]_vars

\* The runtime frees an unreferenced object at once (reference counting), and
\* the exit function calls every pending finalizer. Nothing makes the program
\* call the handler again, drop a reference or end.
FairSpec ==
    /\ Spec
    /\ \A i \in Ids : WF_vars(Destroy(i))
    /\ \A h \in Handlers, i \in Ids : WF_vars(Finalize(h, i))

\* ------------------------------------------------------------------ claims
\* What the program reads for obj through handler h in the current state.
Get(h, obj) == __getitem__(h, obj).ret

Has(h, obj) == __contains__(h, obj).ret

SetOps == {"__setitem__", "__set__"}

GetOps == {"__getitem__", "__get__"}

\* The live object at i has not been set through h since it was created.
NeverWritten(h, i) == heap[i].alive /\ i \notin DOMAIN written[h]

\* C1: every live owner never written since its creation reads the default the
\* handler was constructed with and is not contained, whatever was set on other
\* owners; a read of such an owner returns that default; no handler's default
\* ever differs from the one it was given.
C1_NeverWrittenReadsDefault ==
    /\ \A h \in Declared : default_value[h] = given_default[h]
    /\ \A h \in Declared, i \in Ids :
          NeverWritten(h, i) => Get(h, i) = given_default[h] /\ ~ Has(h, i)
    /\ (last.op \in GetOps /\ NeverWritten(last.h, last.obj))
          => last.ret = given_default[last.h]
    /\ (last.op = "__contains__" /\ NeverWritten(last.h, last.obj)) => ~ last.has

\* A never-written owner has just been read while another owner of the same
\* handler holds a value other than the (non-None) default.
C1_Witness ==
    /\ last.op = "__getitem__"
    /\ NeverWritten(last.h, last.obj)
    /\ given_default[last.h] # None
    /\ \E j \in DOMAIN written[last.h] :
          j # last.obj /\ written[last.h][j] # given_default[last.h]

\* C2: right after a set (direct or through the field write) that completed,
\* the owner reads the value set and is contained; a read of a written owner
\* returns the value last written to it.
C2_SetThenGet ==
    /\ (last.op \in SetOps /\ last.raised = "")
          => Get(last.h, last.obj) = last.val /\ Has(last.h, last.obj)
    /\ (last.op \in GetOps /\ last.obj \in DOMAIN written[last.h])
          => last.ret = written[last.h][last.obj]

\* A field write of a value other than the default has just completed.
C2_Witness ==
    /\ last.op = "__set__"
    /\ last.raised = ""
    /\ last.val # default_value[last.h]
    /\ last.val # None

\* C3: while the program runs, every written live owner reads the value of the
\* most recent set on it, and the handler holds exactly one entry per written
\* live owner.
C3_LastWriteWins ==
    ~ exited =>
        \A h \in Declared :
            /\ \A i \in DOMAIN written[h] : Has(h, i) /\ Get(h, i) = written[h][i]
            /\ Cardinality(DOMAIN variable[h]) = Cardinality(DOMAIN written[h])

\* A set has just overwritten a different earlier value, while another owner
\* of the same handler is written too.
C3_Witness ==
    /\ last.op \in SetOps
    /\ last.raised = ""
    /\ last.had
    /\ last.old # last.val
    /\ \E j \in DOMAIN written[last.h] : j # last.obj

\* C4: a set on one owner leaves what every other live owner reads through
\* the same handler, and whether it is contained, unchanged.
C4_Isolation ==
    [][last'.op \in SetOps =>
          \A h \in Declared, i \in Ids :
              (h = last'.h /\ i # last'.obj /\ heap[i].alive)
                  => Get(h, i)' = Get(h, i) /\ Has(h, i)' = Has(h, i)]_vars

\* A set on one owner has just completed while a second live owner, equal to
\* it by value, holds a different value in the same handler.
C4_Witness ==
    /\ last.op \in SetOps
    /\ last.raised = ""
    /\ \E j \in DOMAIN written[last.h] :
          /\ j # last.obj
          /\ heap[j].alive
          /\ heap[j].eqkey = heap[last.obj].eqkey
          /\ Get(last.h, j) # last.val

\* The live object at i has been set through some handler.
Written(i) == \E h \in Declared : i \in DOMAIN written[h]

\* No handler holds an entry under i.
NoEntry(i) == \A h \in Declared : i \notin DOMAIN variable[h]

\* C5: once the program holds no reference to a written owner, the owner is
\* eventually destroyed and no handler holds an entry under its identity.
C5_Reclaimed ==
    \A i \in Ids :
        (heap[i].alive /\ ~ heap[i].rooted /\ Written(i))
            ~> (~ heap[i].alive /\ NoEntry(i))

\* C6 (not settled by a formula): a written owner is never destroyed while the
\* program runs, since Pinned holds from its first set on; see C5_Reclaimed.

ReadOps == GetOps \cup {"__contains__"}

\* C7: a get or contains call (direct or through the field read), on a written
\* or a never-written owner, leaves every handler's dict and the pending
\* finalizers exactly as they were.
C7_ReadsChangeNothing ==
    [][last'.op \in ReadOps => variable' = variable /\ registry' = registry]_vars

\* A never-written owner has just been read: it has no entry and no pending
\* finalizer, while another owner of the handler has both.
C7_Witness ==
    /\ last.op \in GetOps
    /\ NeverWritten(last.h, last.obj)
    /\ ~ Has(last.h, last.obj)
    /\ registry[<<last.h, last.obj>>] = 0
    /\ \E j \in DOMAIN variable[last.h] : registry[<<last.h, j>>] = 1

DeclareOps == {"mixin_property", "optional_mixin_property"}

\* C8: mixin_property with None raises at the declaration and makes no handler
\* (the handlers are as before); with any other default it raises nothing and
\* one handler is added; no other call ever raises that error.
C8_RequiredDefault ==
    [][/\ last'.op = "mixin_property" =>
             IF last'.val = None
             THEN /\ last'.raised = "AssertionError"
                  /\ last'.h = 0
                  /\ default_value' = default_value
                  /\ variable' = variable
             ELSE /\ last'.raised = ""
                  /\ Len(default_value') = Len(default_value) + 1
                  /\ default_value'[last'.h] = last'.val
       /\ last'.op # "mixin_property" => last'.raised # "AssertionError"]_vars

\* mixin_property(None) has just failed in a program that already declared a
\* handler, and left it alone.
C8_Witness ==
    /\ last.op = "mixin_property"
    /\ last.val = None
    /\ last.raised = "AssertionError"
    /\ Len(default_value) = 1

\* C9: each declaration adds a handler with an empty dict and the default it
\* was given and leaves the other handlers alone; a set through one handler
\* leaves what every live owner reads through every other handler, and
\* whether it is contained there, unchanged; a never-written owner reads each
\* handler's own default.
C9_AttributesIndependent ==
    [][/\ (last'.op \in DeclareOps /\ last'.raised = "") =>
             /\ Len(variable') = Len(variable) + 1
             /\ last'.h = Len(variable')
             /\ variable'[last'.h] = EmptyDict
             /\ default_value'[last'.h] = last'.val
             /\ \A h \in Declared :
                   variable'[h] = variable[h] /\ default_value'[h] = default_value[h]
       /\ last'.op \in SetOps =>
             \A h \in Declared, i \in Ids :
                 (h # last'.h /\ heap[i].alive)
                     => Get(h, i)' = Get(h, i) /\ Has(h, i)' = Has(h, i)
       /\ (last'.op \in GetOps /\ NeverWritten(last'.h, last'.obj)) =>
             last'.ret = default_value[last'.h]]_vars

\* An owner has just been set through one handler and is never written in
\* another handler, whose different default it still reads.
C9_Witness ==
    /\ last.op \in SetOps
    /\ last.raised = ""
    /\ \E g \in Declared :
          /\ g # last.h
          /\ default_value[g] # default_value[last.h]
          /\ NeverWritten(g, last.obj)
          /\ last.val # default_value[g]
          /\ Get(g, last.obj) = default_value[g]

\* C10: a cleanup call for an owner whose identity has no entry raises nothing
\* and leaves every handler's dict unchanged.
C10_CleanupNoEntrySilent ==
    [][(last'.op = "cleanup" /\ ~ last'.had) =>
          last'.raised = "" /\ variable' = variable]_vars

CallOps == ReadOps \cup SetOps

\* C11: no get, set or contains call on a live owner raises an error; the
\* only call that raises is mixin_property with None.
C11_CallsTotal ==
    /\ last.op \in CallOps => last.raised = ""
    /\ last.raised # "" => last.op = "mixin_property" /\ last.val = None

\* C12: the optional factory makes a handler whose default is the one given,
\* None included; a never-written owner reads that default and is not
\* contained; after a set the owner reads the value set, and a set of None
\* leaves the owner contained and reading None.
C12_OptionalDefault ==
    /\ last.op = "optional_mixin_property" =>
          /\ last.raised = ""
          /\ last.h = Len(default_value)
          /\ default_value[last.h] = last.val
          /\ variable[last.h] = EmptyDict
    /\ \A h \in Declared, i \in Ids :
          NeverWritten(h, i) => Get(h, i) = given_default[h] /\ ~ Has(h, i)
    /\ (last.op \in SetOps /\ last.raised = "") =>
          /\ Has(last.h, last.obj)
          /\ Get(last.h, last.obj) = last.val

\* In a handler declared with no default, None has just been set on an owner
\* that held a value; another live owner of the handler is never written.
C12_Witness ==
    /\ last.op \in SetOps
    /\ last.raised = ""
    /\ last.val = None
    /\ last.had
    /\ last.old # None
    /\ given_default[last.h] = None
    /\ Has(last.h, last.obj)
    /\ \E j \in Ids : j # last.obj /\ NeverWritten(last.h, j) /\ Get(last.h, j) = None

\* C13: every key of a handler's dict is the identity of a live owner that
\* was written, and an entry leaves the dict in the very step in which its
\* owner is destroyed.
C13_EntryLeavesAtDestruction ==
    [][/\ \A h \in DOMAIN variable' : \A k \in DOMAIN variable'[h] :
             heap'[k].alive /\ k \in DOMAIN written'[h]
       /\ \A h \in Declared : \A k \in DOMAIN variable[h] :
             k \notin DOMAIN variable'[h] => heap[k].alive /\ ~ heap'[k].alive]_vars

\* C14: no (handler, owner) ever has more than one finalizer pending; a set
\* registers one exactly when the owner had no entry; while the program runs
\* every written owner has exactly one pending.
C14_OneHookPerOwner ==
    [][/\ \A h \in Handlers, i \in Ids : registry'[<<h, i>>] <= 1
       /\ last'.op \in SetOps =>
             registry'[<<last'.h, last'.obj>>] =
                 registry[<<last'.h, last'.obj>>]
                     + (IF last'.had \/ last'.raised # "" THEN 0 ELSE 1)
       /\ ~ exited' =>
             \A h \in DOMAIN variable' : \A i \in DOMAIN written'[h] :
                 registry'[<<h, i>>] = 1]_vars

\* A set has just overwritten the entry of an owner, which still has one
\* finalizer pending.
C14_Witness ==
    /\ last.op \in SetOps
    /\ last.raised = ""
    /\ last.had
    /\ last.old # last.val
    /\ registry[<<last.h, last.obj>>] = 1

\* C15: an entry appears only by a set on its owner that finds no entry; no
\* get, set or contains on any owner removes an entry; an entry disappears
\* only by the cleanup call of its own owner's finalizer, after which no
\* finalizer is pending for that owner (it cannot be removed again).
C15_EntryLifecycle ==
    [][\A h \in Declared, k \in Ids :
          /\ (k \notin DOMAIN variable[h] /\ k \in DOMAIN variable'[h]) =>
                /\ last'.op \in SetOps
                /\ last'.h = h
                /\ last'.obj = k
                /\ ~ last'.had
          /\ (k \in DOMAIN variable[h] /\ last'.op \in CallOps) =>
                k \in DOMAIN variable'[h]
          /\ (k \in DOMAIN variable[h] /\ k \notin DOMAIN variable'[h]) =>
                /\ last'.op = "cleanup"
                /\ last'.h = h
                /\ last'.obj = k
                /\ registry[<<h, k>>] = 1
                /\ registry'[<<h, k>>] = 0]_vars

\* The finalizer of a written owner has just removed its entry, while the
\* entry of another written owner of the handler is still there.
C15_Witness ==
    /\ last.op = "cleanup"
    /\ last.had
    /\ last.obj \in DOMAIN written[last.h]
    /\ last.obj \notin DOMAIN variable[last.h]
    /\ \E j \in DOMAIN variable[last.h] : j # last.obj

\* C16: in every state the owners with a pending finalizer on a handler are
\* exactly the owners whose identity has an entry in it, each alive; a
\* cleanup call always finds its owner's entry.
C16_HooksMatchEntries ==
    /\ \A h \in Declared, i \in Ids :
          /\ registry[<<h, i>>] > 0 <=> i \in DOMAIN variable[h]
          /\ registry[<<h, i>>] > 0 => heap[i].alive
    /\ \A h \in Handlers \ Declared, i \in Ids : registry[<<h, i>>] = 0
    /\ last.op = "cleanup" => last.had /\ last.raised = ""

\* One owner's finalizer has just run and removed its entry; another owner of
\* the handler still has its finalizer pending and its entry.
C16_Witness ==
    /\ last.op = "cleanup"
    /\ last.had
    /\ registry[<<last.h, last.obj>>] = 0
    /\ last.obj \notin DOMAIN variable[last.h]
    /\ \E j \in Ids :
          j # last.obj /\ registry[<<last.h, j>>] = 1 /\ j \in DOMAIN variable[last.h]

\* C17: a set whose hook registration fails raises that error (TypeError) and
\* leaves every dict and the pending finalizers unchanged, so the owner still
\* reads the default and is not contained; registration can fail only on a
\* first write.
C17_RegisterBeforeStore ==
    [][(last'.op \in SetOps /\ last'.raised # "") =>
          /\ last'.raised = "TypeError"
          /\ ~ last'.had
          /\ variable' = variable
          /\ registry' = registry
          /\ \A h \in Declared, i \in Ids :
                (h = last'.h /\ i = last'.obj)
                    => Get(h, i)' = default_value[h] /\ ~ Has(h, i)']_vars

\* A set of a value other than the default has just failed with TypeError on
\* an owner that cannot be weakly referenced.
C17_Witness ==
    /\ last.op \in SetOps
    /\ last.raised = "TypeError"
    /\ ~ heap[last.obj].weakrefable
    /\ last.val # default_value[last.h]
    /\ Get(last.h, last.obj) = default_value[last.h]
    /\ ~ Has(last.h, last.obj)

====
